---- MODULE Spec2Model ----
(***************************************************************************)
(* Item store of fastapi-item-manager.  The repository holds two variants  *)
(* of the same FastAPI application:                                        *)
(*   "backend" : src/backend/main.py  (price >= 0, checked by hand, 400)   *)
(*   "main"    : src/main.py          (price > 0, name non-empty, checked  *)
(*                                     by the pydantic schema, 422)        *)
(* A behaviour fixes one variant in Init and then serves requests.         *)
(*                                                                         *)
(* Optional values (Python's None) are sequences of length <= 1:           *)
(*   None is <<>>, a value x is <<x>>.                                     *)
(***************************************************************************)
EXTENDS Integers, Sequences, FiniteSets, TLC

VARIABLES
    variant,   \* which of the two applications runs
    db,        \* db: Dict[int, item]          (function id -> record)
    next_id,   \* next_id: int
    req,       \* the request in flight   [op, id, body]   (op "none": no request)
    resp,      \* the handler's response  [status, body]   (status 0: none yet)
    created,   \* history: ids assigned by the successful creates, in order
    deleted,   \* history: ids removed by a successful delete
    task,      \* concurrent requests: each handler coroutine's position and locals
    running,   \* the coroutine the event loop is executing (0: none)
    inserts    \* history: the inserts done by Creates  [task, id, key]

cvars == <<task, running, inserts>>
vars == <<variant, db, next_id, req, resp, created, deleted, task, running, inserts>>

\* ---------------------------------------------------------------- bounds
\* next_id never exceeds MaxId + 1: at most MaxId items are ever created.
MaxId == 2
\* requests that may be in flight at once
NumClients == 2

\* ------------------------------------------------------------ input data
None == <<>>
Some(x) == <<x>>
IsNone(o) == Len(o) = 0

Variants == {"backend", "main"}
Names == {"", "a"}
Descriptions == {"d"}
Prices == {-1, 0, 1}
Flags == {}
OptOf(S) == {None} \cup {Some(x) : x \in S}
\* ids a client may ask for: an id is unknown to the store before its item is
\* created and after it is deleted
RequestIds == 1..MaxId

\* class ItemCreate, as parsed from a well-typed body.  name and price are
\* required, so they always carry a value; is_offer exists in backend only.
\* The clients explored here never send is_offer (Flags is empty): the field
\* is stored and copied by the same statements as description.
ItemCreate ==
    IF variant = "backend"
    THEN [name : {Some(n) : n \in Names}, description : OptOf(Descriptions),
          price : {Some(p) : p \in Prices}, is_offer : OptOf(Flags)]
    ELSE [name : {Some(n) : n \in Names}, description : OptOf(Descriptions),
          price : {Some(p) : p \in Prices}]

\* class ItemUpdate, as parsed from a well-typed body: every field is
\* optional; "set" is pydantic's model_fields_set (the fields the body
\* names, each with a value or an explicit null), a field outside it holds
\* its default None.
ItemUpdateFields == IF variant = "backend"
                    THEN {"name", "description", "price", "is_offer"}
                    ELSE {"name", "description", "price"}
\* the fields the explored clients name in an update body
SentFields == {"name", "description", "price"}

ItemUpdate ==
    LET all == IF variant = "backend"
               THEN [set : SUBSET SentFields, name : OptOf(Names),
                     description : OptOf(Descriptions), price : OptOf(Prices),
                     is_offer : {None}]
               ELSE [set : SUBSET SentFields, name : OptOf(Names),
                     description : OptOf(Descriptions), price : OptOf(Prices)]
    IN {u \in all : \A k \in ItemUpdateFields \ u.set : IsNone(u[k])}

\* ------------------------------------------------ schema layer (pydantic)
\* src/main.py: Field(..., min_length=1) on name, Field(..., gt=0) on price.
\* src/backend/main.py declares no constraint.  A body that fails here never
\* reaches the handler: FastAPI answers 422.
ItemCreateAccepts(item) ==
    IF variant = "main"
    THEN item.name[1] # "" /\ item.price[1] > 0
    ELSE TRUE

\* src/main.py: price: float | None = Field(None, gt=0); name has no
\* min_length here.  An explicit null is a legal value of every field.
ItemUpdateAccepts(u) ==
    IF variant = "main"
    THEN ("price" \in u.set /\ ~IsNone(u.price)) => u.price[1] > 0
    ELSE TRUE

\* response_model: the returned record is validated before it is sent; a
\* record that does not fit makes FastAPI answer 500 (the store is already
\* written by then).
ResponseModelAccepts(item) ==
    IF variant = "main"
    THEN /\ ~IsNone(item.name) /\ item.name[1] # ""
         /\ ~IsNone(item.price) /\ item.price[1] > 0
    ELSE /\ ~IsNone(item.name)
         /\ ~IsNone(item.price)

StatusOf(item, ok) == IF ResponseModelAccepts(item) THEN ok ELSE 500

\* ----------------------------------------------------------- dict helpers
\* an insert under the key after the one asked for
DictSetNextKey(d, k, v) ==
    [x \in DOMAIN d \cup {k + 1} |-> IF x = k + 1 THEN v ELSE d[x]]

\* d[k] = v
DictSet(d, k, v) == [x \in DOMAIN d \cup {k} |-> IF x = k THEN v ELSE d[x]]
\* a delete that removes the item inserted last (d.popitem()) instead of d[k]
DictPopItem(d, k) ==
    [x \in DOMAIN d \ {CHOOSE m \in DOMAIN d : \A j \in DOMAIN d : j <= m} |-> d[x]]

\* del d[k]
DictDel(d, k) == [x \in DOMAIN d \ {k} |-> d[x]]

\* item_update.model_dump(): every field, the unset ones with their default
model_dump_all(u) == [k \in DOMAIN u \ {"set"} |-> u[k]]

\* item_update.model_dump(exclude_unset=True)
model_dump_exclude_unset(u) == [k \in u.set |-> u[k]]

\* ------------------------------------------------- requests and responses
NoRequest == [op |-> "none", id |-> 0, body |-> None]
NoResponse == [status |-> 0, body |-> None]
Response(status, body) == [status |-> status, body |-> body]

\* The handler of the request in flight may run: FastAPI calls it once per
\* request, after the body is parsed.
Handling(op) == req.op = op /\ resp = NoResponse

\* A client sends a request; the server is between requests.
Receive ==
    /\ UNCHANGED cvars
    /\ req = NoRequest
    /\ resp = NoResponse
    /\ \/ \E item \in ItemCreate :
            req' = [op |-> "create", id |-> 0, body |-> Some(item)]
       \/ \E item_id \in RequestIds :
            req' = [op |-> "get", id |-> item_id, body |-> None]
       \/ \E item_id \in RequestIds, item_update \in ItemUpdate :
            req' = [op |-> "update", id |-> item_id, body |-> Some(item_update)]
       \/ \E item_id \in RequestIds :
            req' = [op |-> "delete", id |-> item_id, body |-> None]
    /\ UNCHANGED <<variant, db, next_id, resp, created, deleted>>

\* The response is sent; the server is ready for the next request.
Deliver ==
    /\ UNCHANGED cvars
    /\ req # NoRequest
    /\ resp # NoResponse
    /\ req' = NoRequest
    /\ resp' = NoResponse
    /\ UNCHANGED <<variant, db, next_id, created, deleted>>

\* An HTTPException (or a schema error) ends the handler: nothing is written.
Raise(status) ==
    /\ resp' = Response(status, None)
    /\ UNCHANGED <<variant, db, next_id, req, created, deleted>>

\* ------------------------------------------------------ src/backend/main.py
validate_item_data_raises(item) == item.price[1] < 0

backend_response_item(new_id, item) ==
    [id |-> new_id, name |-> item.name, description |-> item.description,
     price |-> item.price, is_offer |-> item.is_offer]

\* a create that takes its id from the store instead of the counter
backend_new_id_from_store ==
    IF DOMAIN db = {} THEN 1
    ELSE (CHOOSE k \in DOMAIN db : \A j \in DOMAIN db : j <= k) + 1

\* new_id = next_id
backend_new_id == next_id

backend_create_item ==
    /\ variant = "backend"
    /\ UNCHANGED cvars
    /\ Handling("create")
    /\ LET item == req.body[1]
       IN IF ~ItemCreateAccepts(item) THEN Raise(422)
          ELSE IF validate_item_data_raises(item) THEN Raise(400)
          ELSE LET new_id == backend_new_id
                   response_item == backend_response_item(new_id, item)
               IN /\ next_id <= MaxId
                  /\ next_id' = next_id + 1
                  /\ db' = DictSet(db, new_id, response_item)
                  /\ created' = Append(created, new_id)
                  /\ resp' = Response(StatusOf(response_item, 201),
                                      Some(response_item))
                  /\ UNCHANGED <<variant, req, deleted>>

\* What GET /items/{item_id} answers on store d.
backend_read_item_response(d, item_id) ==
    IF item_id \notin DOMAIN d THEN Response(404, None)
    ELSE Response(StatusOf(d[item_id], 200), Some(d[item_id]))

backend_read_item ==
    /\ variant = "backend"
    /\ UNCHANGED cvars
    /\ Handling("get")
    /\ resp' = backend_read_item_response(db, req.id)
    /\ UNCHANGED <<variant, db, next_id, req, created, deleted>>

\* existing_item.copy(update=update_data): a new record, the fields named by
\* update_data replaced, nothing validated.
backend_copy_update(existing_item, update_data) ==
    [k \in DOMAIN existing_item |->
        IF k \in DOMAIN update_data THEN update_data[k] ELSE existing_item[k]]

backend_price_check_raises(update_data) ==
    /\ "price" \in DOMAIN update_data
    /\ ~IsNone(update_data["price"])
    /\ update_data["price"][1] < 0

backend_update_item ==
    /\ variant = "backend"
    /\ UNCHANGED cvars
    /\ Handling("update")
    /\ LET item_id == req.id
           item_update == req.body[1]
       IN IF ~ItemUpdateAccepts(item_update) THEN Raise(422)
          ELSE IF item_id \notin DOMAIN db THEN Raise(404)
          ELSE LET existing_item == db[item_id]
                   update_data == model_dump_exclude_unset(item_update)
               IN IF backend_price_check_raises(update_data) THEN Raise(400)
                  ELSE LET updated_item ==
                               backend_copy_update(existing_item, update_data)
                       IN /\ db' = DictSet(db, item_id, updated_item)
                          /\ resp' = Response(StatusOf(updated_item, 200),
                                              Some(updated_item))
                          /\ UNCHANGED <<variant, next_id, req, created, deleted>>

backend_delete_item ==
    /\ variant = "backend"
    /\ UNCHANGED cvars
    /\ Handling("delete")
    /\ IF req.id \notin DOMAIN db THEN Raise(404)
       ELSE /\ db' = DictDel(db, req.id)
            /\ deleted' = deleted \cup {req.id}
            /\ resp' = Response(204, None)
            /\ UNCHANGED <<variant, next_id, req, created>>

\* -------------------------------------------------------------- src/main.py
\* new_item_data = item.model_dump(); ['id'] = next_id; ['is_active'] = True
main_new_item_data(id, item) ==
    [name |-> item.name, description |-> item.description,
     price |-> item.price, id |-> id, is_active |-> TRUE]

\* a create that forgets the increment
main_next_id_kept(n) == n

\* next_id += 1
main_next_id_incremented(n) == n + 1

main_create_item ==
    /\ variant = "main"
    /\ UNCHANGED cvars
    /\ Handling("create")
    /\ LET item == req.body[1]
       IN IF ~ItemCreateAccepts(item) THEN Raise(422)
          ELSE LET new_item_data == main_new_item_data(next_id, item)
               IN /\ next_id <= MaxId
                  /\ db' = DictSet(db, next_id, new_item_data)
                  /\ next_id' = main_next_id_incremented(next_id)
                  /\ created' = Append(created, next_id)
                  /\ resp' = Response(StatusOf(new_item_data, 201),
                                      Some(new_item_data))
                  /\ UNCHANGED <<variant, req, deleted>>

main_read_item_response(d, item_id) ==
    IF item_id \notin DOMAIN d THEN Response(404, None)
    ELSE Response(StatusOf(d[item_id], 200), Some(d[item_id]))

main_read_item ==
    /\ variant = "main"
    /\ UNCHANGED cvars
    /\ Handling("get")
    /\ resp' = main_read_item_response(db, req.id)
    /\ UNCHANGED <<variant, db, next_id, req, created, deleted>>

\* for key, value in update_data.items():
\*     if value is not None: existing_item[key] = value
main_apply_updates(existing_item, update_data) ==
    [k \in DOMAIN existing_item |->
        IF k \in DOMAIN update_data /\ ~IsNone(update_data[k])
        THEN update_data[k] ELSE existing_item[k]]

main_update_item ==
    /\ variant = "main"
    /\ UNCHANGED cvars
    /\ Handling("update")
    /\ LET item_id == req.id
           item_update == req.body[1]
       IN IF ~ItemUpdateAccepts(item_update) THEN Raise(422)
          ELSE IF item_id \notin DOMAIN db THEN Raise(404)
          ELSE LET update_data == model_dump_exclude_unset(item_update)
                   existing_item == main_apply_updates(db[item_id], update_data)
               IN /\ db' = DictSet(db, item_id, existing_item)
                  /\ resp' = Response(StatusOf(existing_item, 200),
                                      Some(existing_item))
                  /\ UNCHANGED <<variant, next_id, req, created, deleted>>

main_delete_item ==
    /\ variant = "main"
    /\ UNCHANGED cvars
    /\ Handling("delete")
    /\ IF req.id \notin DOMAIN db THEN Raise(404)
       ELSE /\ db' = DictDel(db, req.id)
            /\ deleted' = deleted \cup {req.id}
            /\ resp' = Response(200, None)
            /\ UNCHANGED <<variant, next_id, req, created>>


\* ------------------------------------------------- concurrent requests
\* Every handler is declared "async def" and holds no await: the event loop
\* runs it from its first statement to its return before it starts or
\* resumes any other handler.  The handlers are taken statement by
\* statement here; task[p].pc names the statement task p executes next.
Tasks == 1..NumClients
IdleTask == [pc |-> "idle", item_id |-> 0, new_id |-> 0, item |-> None]
ConcItemCreate == {i \in ItemCreate : i.name = Some("a") /\ IsNone(i.description)}
ConcItemUpdate == {u \in ItemUpdate : u.set = {"description"}}

\* handlers run in worker threads (plain "def"): any task may take a step
MayRunThreaded(p) == TRUE

\* task p may execute its next statement
MayRun(p) == running \in {0, p}

Goto(p, pc) == task' = [task EXCEPT ![p].pc = pc]
Return(p) == task' = [task EXCEPT ![p] = IdleTask] /\ running' = 0
SeqUnchanged == UNCHANGED <<variant, req, resp, created, deleted>>

\* the server accepts a request and starts its handler
Accept(p) ==
    /\ task[p].pc = "idle"
    /\ MayRun(p)
    /\ \/ /\ next_id <= MaxId
          /\ \E item \in ConcItemCreate :
                task' = [task EXCEPT ![p] = [pc |-> "create", item_id |-> 0,
                                             new_id |-> 0, item |-> Some(item)]]
       \/ \E item_id \in RequestIds, item_update \in ConcItemUpdate :
                task' = [task EXCEPT ![p] = [pc |-> "update", item_id |-> item_id,
                                             new_id |-> 0, item |-> Some(item_update)]]
       \/ \E item_id \in RequestIds :
                task' = [task EXCEPT ![p] = [pc |-> "delete", item_id |-> item_id,
                                             new_id |-> 0, item |-> None]]
    /\ running' = p
    /\ UNCHANGED <<db, next_id, inserts>>
    /\ SeqUnchanged

\* src/backend/main.py:79  validate_item_data(item)
conc_backend_validate(p) ==
    /\ variant = "backend" /\ task[p].pc = "create" /\ MayRun(p)
    /\ IF validate_item_data_raises(task[p].item[1])
       THEN Return(p)
       ELSE Goto(p, "b82") /\ running' = p
    /\ UNCHANGED <<db, next_id, inserts>>
    /\ SeqUnchanged

\* src/backend/main.py:82  new_id = next_id
conc_backend_read_counter(p) ==
    /\ variant = "backend" /\ task[p].pc = "b82" /\ MayRun(p)
    /\ task' = [task EXCEPT ![p].pc = "b83", ![p].new_id = next_id]
    /\ running' = p
    /\ UNCHANGED <<db, next_id, inserts>>
    /\ SeqUnchanged

\* src/backend/main.py:83  next_id += 1
conc_backend_increment(p) ==
    /\ variant = "backend" /\ task[p].pc = "b83" /\ MayRun(p)
    /\ next_id' = next_id + 1
    /\ Goto(p, "b89") /\ running' = p
    /\ UNCHANGED <<db, inserts>>
    /\ SeqUnchanged

\* src/backend/main.py:86-90  db[new_id] = response_item; return
conc_backend_insert(p) ==
    /\ variant = "backend" /\ task[p].pc = "b89" /\ MayRun(p)
    /\ db' = DictSet(db, task[p].new_id,
                     backend_response_item(task[p].new_id, task[p].item[1]))
    /\ inserts' = Append(inserts, [task |-> p, id |-> task[p].new_id,
                                   key |-> task[p].new_id])
    /\ Return(p)
    /\ UNCHANGED next_id
    /\ SeqUnchanged

\* src/main.py:60-62  new_item_data = item.model_dump(); ['id'] = next_id
conc_main_build(p) ==
    /\ variant = "main" /\ task[p].pc = "create" /\ MayRun(p)
    /\ IF ~ItemCreateAccepts(task[p].item[1])
       THEN Return(p)
       ELSE /\ task' = [task EXCEPT ![p].pc = "m64", ![p].new_id = next_id]
            /\ running' = p
    /\ UNCHANGED <<db, next_id, inserts>>
    /\ SeqUnchanged

\* src/main.py:64  db[next_id] = new_item_data
conc_main_insert(p) ==
    /\ variant = "main" /\ task[p].pc = "m64" /\ MayRun(p)
    /\ db' = DictSet(db, next_id,
                     main_new_item_data(task[p].new_id, task[p].item[1]))
    /\ inserts' = Append(inserts, [task |-> p, id |-> task[p].new_id,
                                   key |-> next_id])
    /\ Goto(p, "m65") /\ running' = p
    /\ UNCHANGED next_id
    /\ SeqUnchanged

\* src/main.py:65-67  next_id += 1; return
conc_main_increment(p) ==
    /\ variant = "main" /\ task[p].pc = "m65" /\ MayRun(p)
    /\ next_id' = next_id + 1
    /\ Return(p)
    /\ UNCHANGED <<db, inserts>>
    /\ SeqUnchanged

\* update_item, first statement: if item_id not in db: raise 404
conc_update_lookup(p) ==
    /\ task[p].pc = "update" /\ MayRun(p)
    /\ IF ~ItemUpdateAccepts(task[p].item[1]) \/ task[p].item_id \notin DOMAIN db
       THEN Return(p)
       ELSE Goto(p, "u_merge") /\ running' = p
    /\ UNCHANGED <<db, next_id, inserts>>
    /\ SeqUnchanged

\* update_item: existing_item = db[item_id], the price check and the merge.
\* db[item_id] raises KeyError if the item is gone by now.
conc_update_merge(p) ==
    /\ task[p].pc = "u_merge" /\ MayRun(p)
    /\ LET update_data == model_dump_exclude_unset(task[p].item[1])
       IN IF task[p].item_id \notin DOMAIN db
          THEN Return(p)
          ELSE IF variant = "backend" /\ backend_price_check_raises(update_data)
          THEN Return(p)
          ELSE /\ task' = [task EXCEPT ![p].pc = "u_store", ![p].item =
                     Some(IF variant = "backend"
                          THEN backend_copy_update(db[task[p].item_id], update_data)
                          ELSE main_apply_updates(db[task[p].item_id], update_data))]
               /\ running' = p
    /\ UNCHANGED <<db, next_id, inserts>>
    /\ SeqUnchanged

\* update_item: db[item_id] = updated_item; return
conc_update_store(p) ==
    /\ task[p].pc = "u_store" /\ MayRun(p)
    /\ db' = DictSet(db, task[p].item_id, task[p].item[1])
    /\ Return(p)
    /\ UNCHANGED <<next_id, inserts>>
    /\ SeqUnchanged

\* delete_item, first statement: if item_id not in db: raise 404
conc_delete_lookup(p) ==
    /\ task[p].pc = "delete" /\ MayRun(p)
    /\ IF task[p].item_id \notin DOMAIN db
       THEN Return(p)
       ELSE Goto(p, "d_del") /\ running' = p
    /\ UNCHANGED <<db, next_id, inserts>>
    /\ SeqUnchanged

\* delete_item: del db[item_id]; return  (KeyError if the item is gone)
conc_delete_remove(p) ==
    /\ task[p].pc = "d_del" /\ MayRun(p)
    /\ db' = IF task[p].item_id \in DOMAIN db THEN DictDel(db, task[p].item_id)
             ELSE db
    /\ Return(p)
    /\ UNCHANGED <<next_id, inserts>>
    /\ SeqUnchanged

\* ------------------------------------------------------------ the machine
Init ==
    /\ variant \in Variants
    /\ db = <<>>
    /\ next_id = 1
    /\ req = NoRequest
    /\ resp = NoResponse
    /\ created = <<>>
    /\ deleted = {}
    /\ task = [p \in Tasks |-> IdleTask]
    /\ running = 0
    /\ inserts = <<>>

Next ==
    \/ Receive
    \/ Deliver
    \/ backend_create_item
    \/ backend_read_item
    \/ backend_update_item
    \/ backend_delete_item
    \/ main_create_item
    \/ main_read_item
    \/ main_update_item
    \/ main_delete_item

Spec == Init /\ [][Next]_vars

ConcNext ==
    \E p \in Tasks :
        \/ Accept(p)
        \/ conc_backend_validate(p)
        \/ conc_backend_read_counter(p)
        \/ conc_backend_increment(p)
        \/ conc_backend_insert(p)
        \/ conc_main_build(p)
        \/ conc_main_insert(p)
        \/ conc_main_increment(p)
        \/ conc_update_lookup(p)
        \/ conc_update_merge(p)
        \/ conc_update_store(p)
        \/ conc_delete_lookup(p)
        \/ conc_delete_remove(p)

ConcSpec == Init /\ [][ConcNext]_vars

\* ================================================================ claims
Max(S) == CHOOSE k \in S : \A j \in S : j <= k
Done(op) == req.op = op /\ resp # NoResponse
DeleteOk == IF variant = "backend" THEN 204 ELSE 200
\* the price constraint of the variant: >= 0, > 0 in the strict one
PriceViolates(p) == IF variant = "main" THEN p <= 0 ELSE p < 0
StoreUnchanged == db' = db /\ next_id' = next_id
ReadItemResponse(d, item_id) ==
    IF variant = "backend" THEN backend_read_item_response(d, item_id)
    ELSE main_read_item_response(d, item_id)

\* C1 (as stated): every successful Create returns the largest id in the
\* store at that moment plus 1, or 1 if the store is empty.
C1_IdIsStoreMaxPlusOne ==
    [][(Handling("create") /\ resp'.status = 201) =>
         resp'.body[1].id = IF DOMAIN db = {} THEN 1 ELSE Max(DOMAIN db) + 1]_vars

\* C1 (amended): every successful Create returns the value the next-id
\* counter has at the call, which is 1 + the largest id ever assigned (1 if
\* none was); it is larger than every id in the store, and it is the store's
\* largest id + 1 whenever the item created last is still stored.
C1_IdIsCounter ==
    [][(Handling("create") /\ resp'.status = 201) =>
         /\ resp'.body[1].id = next_id
         /\ resp'.body[1].id =
               IF created = <<>> THEN 1
               ELSE Max({created[i] : i \in 1..Len(created)}) + 1
         /\ \A k \in DOMAIN db : k < resp'.body[1].id
         /\ (Len(created) > 0 /\ created[Len(created)] \in DOMAIN db)
               => resp'.body[1].id = Max(DOMAIN db) + 1]_vars

\* C1 witness: a Create succeeded on a store emptied by deletes, with id > 1.
C1_Witness ==
    /\ Done("create") /\ resp.status = 201
    /\ resp.body[1].id > 1
    /\ DOMAIN db = {resp.body[1].id}

\* C2: the ids of the successful Creates are pairwise distinct and strictly
\* increasing in creation order, the first is 1, a deleted id was assigned
\* exactly once, and every key of the store is below the next-id counter.
C2_IdsUniqueIncreasing ==
    /\ Len(created) > 0 => created[1] = 1
    /\ \A i, j \in 1..Len(created) : i < j => created[i] < created[j]
    /\ \A d \in deleted : Cardinality({i \in 1..Len(created) : created[i] = d}) = 1
    /\ \A k \in DOMAIN db : k < next_id

\* C2 witness: a second item was created after the first one was deleted.
C2_Witness ==
    /\ Len(created) >= 2
    /\ created[1] \in deleted
    /\ created[2] \in DOMAIN db

\* C3 (as stated): a Create whose price violates the constraint answers 400
\* and leaves the mapping and the counter unchanged.
C3_BadPriceCreateIs400 ==
    [][(Handling("create") /\ PriceViolates(req.body[1].price[1])) =>
         resp'.status = 400 /\ StoreUnchanged]_vars

\* C4 (as stated): Get, Update and Delete of an id that is no key of the
\* store answer 404 and leave the mapping and the counter unchanged.
C4_UnknownIdIs404 ==
    [][(req.op \in {"get", "update", "delete"} /\ Handling(req.op)
          /\ req.id \notin DOMAIN db) =>
         resp'.status = 404 /\ StoreUnchanged]_vars

\* C5: an Update that gets past the lookup and the price check changes, in
\* item id, at most the fields the body names; the item's id, every omitted
\* field, every other item and the counter are unchanged.
C5_UpdateFrame ==
    [][(Handling("update") /\ resp'.status \in {200, 500}) =>
         /\ DOMAIN db' = DOMAIN db
         /\ req.id \in DOMAIN db
         /\ DOMAIN db'[req.id] = DOMAIN db[req.id]
         /\ \A k \in DOMAIN db[req.id] \ req.body[1].set :
                db'[req.id][k] = db[req.id][k]
         /\ db'[req.id].id = req.id
         /\ \A o \in DOMAIN db \ {req.id} : db'[o] = db[o]
         /\ next_id' = next_id]_vars

\* C5 witness: an Update naming only description succeeded on an item and
\* changed its description.
C5_Witness ==
    /\ Done("update") /\ resp.status = 200
    /\ req.body[1].set = {"description"}
    /\ db[req.id].description = Some("d")
    /\ db[req.id].name = Some("a")
    /\ db[req.id].price = Some(1)

\* C6 (as stated): every stored item has a non-empty name and a price that
\* satisfies the price constraint.
C6_StoredItemsValid ==
    \A k \in DOMAIN db :
        /\ ~IsNone(db[k].name) /\ db[k].name[1] # ""
        /\ ~IsNone(db[k].price) /\ ~PriceViolates(db[k].price[1])

\* C7: a Get of an id that was deleted answers 404, whatever happened in
\* between; a successful Delete removes exactly the key id and leaves every
\* other item and the counter unchanged.
C7_DeletedStaysDeleted ==
    [][/\ (Handling("get") /\ req.id \in deleted) => resp'.status = 404
       /\ (Handling("delete") /\ resp'.status = DeleteOk) =>
             /\ req.id \in DOMAIN db
             /\ DOMAIN db' = DOMAIN db \ {req.id}
             /\ \A k \in DOMAIN db' : db'[k] = db[k]
             /\ next_id' = next_id
             /\ req.id \in deleted']_vars

\* C7 witness: a Get of a deleted id answered 404 while an item created
\* after it is stored.
C7_Witness ==
    /\ Done("get") /\ resp.status = 404
    /\ req.id \in deleted
    /\ \E k \in DOMAIN db : k > req.id

\* C8 (as stated): an Update of an existing id whose supplied price violates
\* the constraint answers 400 and changes nothing.
C8_BadPriceUpdateIs400 ==
    [][(/\ Handling("update") /\ req.id \in DOMAIN db
        /\ "price" \in req.body[1].set /\ ~IsNone(req.body[1].price)
        /\ PriceViolates(req.body[1].price[1])) =>
         resp'.status = 400 /\ StoreUnchanged]_vars

\* C10: right after a successful Create, a Get of the returned id answers 200
\* with a record equal, field by field, to the one the Create returned.
C10_CreateGetRoundTrip ==
    (Done("create") /\ resp.status = 201) =>
        LET got == ReadItemResponse(db, resp.body[1].id)
        IN /\ got.status = 200
           /\ ~IsNone(got.body)
           /\ DOMAIN got.body[1] = DOMAIN resp.body[1]
           /\ \A f \in DOMAIN resp.body[1] : got.body[1][f] = resp.body[1][f]

\* C10 witness: a Create with a description succeeded as the second one.
C10_Witness ==
    /\ Done("create") /\ resp.status = 201
    /\ resp.body[1].description = Some("d")
    /\ resp.body[1].id = 2

\* C9: under every interleaving of concurrent requests a Create runs from
\* reading the counter to its insert with no other request in between: no two
\* requests are ever inside their handlers at once, every Create stores its
\* item under the id it assigned, and no two Creates assign the same id or
\* write the same key.
C9_CreateAtomic ==
    /\ \A p, q \in Tasks :
          (p # q /\ task[p].pc # "idle") => task[q].pc = "idle"
    /\ \A i \in 1..Len(inserts) : inserts[i].key = inserts[i].id
    /\ \A i, j \in 1..Len(inserts) :
          i < j => /\ inserts[i].id # inserts[j].id
                   /\ inserts[i].key # inserts[j].key

\* C9 witness: two Creates of different tasks completed and a third request
\* is inside its handler.
C9_Witness ==
    /\ Len(inserts) >= 2
    /\ inserts[1].task # inserts[2].task
    /\ \E p \in Tasks : task[p].pc \notin {"idle", "create", "update", "delete"}
====
